---- MODULE Spec2Model ----
(***************************************************************************)
(* Stock market data pipeline: scripts/fetch_data.py (fetch with retry,    *)
(* tolerant parse, transactional upsert, per-symbol orchestration in main) *)
(* and dags/stock_pipeline.py (the DAG run: validate_environment, then     *)
(* fetch_stock_data, which runs the script, then verify_data_quality) as a *)
(* state machine.                                                          *)
(*                                                                         *)
(* Values are tagged records so that values of different Python types can  *)
(* be compared.  A float is carried as an integer number of tenths.  The   *)
(* audit column updated_at of stock_prices is not part of the model: the   *)
(* properties below speak of the price/volume columns only.                *)
(***************************************************************************)
EXTENDS Integers, Sequences, FiniteSets, TLC

\* ------------------------------------------------------------------ bounds
NumSymbols == 2
MaxEntries == 2

\* ------------------------------------------------------- program constants
MaxAttempts == 3
WaitMultiplier == 1
WaitMin == 4
WaitMax == 10
Retries == 3

\* ------------------------------------------------------------------ values
PyNone == [k |-> "none", v |-> 0]
PyFloat(t) == [k |-> "float", v |-> t]
PyInf == [k |-> "inf", v |-> 0]
PyNaN == [k |-> "nan", v |-> 0]
PyInt(n) == [k |-> "int", v |-> n]

\* What the provider may put in a sub-field of an entry (after JSON decoding):
\* nothing or null, a numeric string (tenths), a non-numeric string, a numeric
\* string beyond the float range ("1e999"), "nan", or a JSON array.
RawAbsent == [k |-> "absent", v |-> 0]
RawNum(t) == [k |-> "numstr", v |-> t]
RawJunk == [k |-> "junk", v |-> 0]
RawHuge == [k |-> "huge", v |-> 0]
RawNaN == [k |-> "nanstr", v |-> 0]
RawList == [k |-> "list", v |-> 0]

Ok(x) == [exc |-> "", val |-> x]
Raise(e) == [exc |-> e, val |-> PyNone]

\* dict.get(key): None when the key is absent (or the value is null)
DictGet(value) == IF value = RawAbsent THEN PyNone ELSE value

\* float(value)
FloatOf(value) ==
    CASE value.k = "numstr" -> Ok(PyFloat(value.v))
      [] value.k = "huge" -> Ok(PyInf)
      [] value.k = "nanstr" -> Ok(PyNaN)
      [] value.k = "junk" -> Raise("ValueError")
      [] OTHER -> Raise("TypeError")

Trunc(t) == IF t >= 0 THEN t \div 10 ELSE -((-t) \div 10)

\* int(f) of a float f
IntOf(f) ==
    CASE f.k = "float" -> Ok(PyInt(Trunc(f.v)))
      [] f.k = "inf" -> Raise("OverflowError")
      [] f.k = "nan" -> Raise("ValueError")
      [] OTHER -> Raise("TypeError")

Caught(r) == r.exc \in {"ValueError", "TypeError"}

_safe_float(value) ==
    IF value = PyNone THEN Ok(PyNone)
    ELSE LET r == FloatOf(value) IN IF Caught(r) THEN Ok(PyNone) ELSE r

_safe_int(value) ==
    IF value = PyNone THEN Ok(PyNone)
    ELSE LET f == FloatOf(value) IN
         IF Caught(f) THEN Ok(PyNone)
         ELSE LET n == IntOf(f.val) IN IF Caught(n) THEN Ok(PyNone) ELSE n

\* datetime.strptime(timestamp_str, '%Y-%m-%d') on the date keys of the model
strptime(key) ==
    CASE key = "2024-01-02" -> [exc |-> "", val |-> "2024-01-02"]
      [] key = "2024-1-2" -> [exc |-> "", val |-> "2024-01-02"]
      [] key = "2024-01-03" -> [exc |-> "", val |-> "2024-01-03"]
      [] OTHER -> [exc |-> "ValueError", val |-> ""]

Fields == {"open", "high", "low", "close", "volume"}

\* Variant: every record is made for the same symbol
StockData_OneSymbol(symbol, timestamp, open, high, low, close, volume) ==
    [symbol |-> "AAPL", timestamp |-> timestamp, open |-> open, high |-> high,
     low |-> low, close |-> close, volume |-> volume]

\* StockData(symbol=symbol, timestamp=timestamp, open=open_price, ...)
StockData(symbol, timestamp, open, high, low, close, volume) ==
    [symbol |-> symbol, timestamp |-> timestamp, open |-> open, high |-> high,
     low |-> low, close |-> close, volume |-> volume]

\* One iteration of the loop over time_series_data.items(): the first exception
\* of the body, which the inner handler catches (the entry is skipped) when it
\* is a ValueError or a TypeError, and which leaves the loop otherwise.
ParseEntry(symbol, key, entry) ==
    LET ts == strptime(key)
        o == _safe_float(DictGet(entry.f["open"]))
        h == _safe_float(DictGet(entry.f["high"]))
        l == _safe_float(DictGet(entry.f["low"]))
        c == _safe_float(DictGet(entry.f["close"]))
        vol == _safe_int(DictGet(entry.f["volume"]))
        first == IF ts.exc # "" THEN ts.exc
                 ELSE IF ~entry.mapping THEN "AttributeError"
                 ELSE IF o.exc # "" THEN o.exc
                 ELSE IF h.exc # "" THEN h.exc
                 ELSE IF l.exc # "" THEN l.exc
                 ELSE IF c.exc # "" THEN c.exc
                 ELSE vol.exc
    IN  [exc |-> IF first \in {"ValueError", "TypeError"} THEN "" ELSE first,
         skip |-> first # "",
         rec |-> StockData(symbol, ts.val, o.val, h.val, l.val, c.val, vol.val)]

RECURSIVE ParseItems(_, _, _)
ParseItems(symbol, items, acc) ==
    IF items = <<>> THEN [exc |-> "", list |-> acc]
    ELSE LET r == ParseEntry(symbol, items[1].key, items[1].entry) IN
         IF r.exc # "" THEN [exc |-> r.exc, list |-> <<>>]
         ELSE ParseItems(symbol, Tail(items),
                         IF r.skip THEN acc ELSE Append(acc, r.rec))

\* Variant: the time-series key is looked up without the search for it
parse_stock_data_KeyError(raw_data, symbol) ==
    CASE raw_data.series.kind = "missing" -> [exc |-> "KeyError", list |-> <<>>]
      [] raw_data.series.kind = "mapping" ->
            ParseItems(symbol, raw_data.series.items, <<>>)
      [] OTHER -> [exc |-> "AttributeError", list |-> <<>>]

\* parse_stock_data: no key with 'Time Series' in it returns [], and whatever
\* the loop over the entries raises is raised again
parse_stock_data(raw_data, symbol) ==
    CASE raw_data.series.kind = "missing" -> [exc |-> "", list |-> <<>>]
      [] raw_data.series.kind = "mapping" ->
            ParseItems(symbol, raw_data.series.items, <<>>)
      [] OTHER -> [exc |-> "AttributeError", list |-> <<>>]


\* ------------------------------------------------------------------- store
\* stock_prices: a set of rows; (symbol, timestamp) is the conflict target.
SameKey(a, b) == a.symbol = b.symbol /\ a.timestamp = b.timestamp

\* Variant: a plain INSERT into a table without the unique key
Upsert_InsertOnly(table, row) == table \cup {row}

\* Variant: ON CONFLICT DO NOTHING, the stored row wins over the new one
Upsert_DoNothing(table, row) ==
    IF \E x \in table : SameKey(x, row) THEN table ELSE table \cup {row}

\* INSERT ... ON CONFLICT (symbol, timestamp) DO UPDATE SET open = EXCLUDED.open, ...
Upsert(table, row) == {x \in table : ~SameKey(x, row)} \cup {row}

\* cursor.executemany: the statement once per tuple, in order, for the first n
RECURSIVE ExecuteMany(_, _, _)
ExecuteMany(table, data_to_insert, n) ==
    IF n = 0 THEN table
    ELSE Upsert(ExecuteMany(table, data_to_insert, n - 1), data_to_insert[n])

\* Variant: every statement is committed as it runs (autocommit)
Rollback_Autocommit(committed, working) == working

\* conn.rollback() / conn.close() without commit: the committed table stands
Rollback(committed, working) == committed

\* conn.commit(): the transaction's table becomes the committed one
Commit(committed, working) == working

\* ----------------------------------------------------------------- fetcher
\* Variant: stops one attempt late
stop_after_attempt_Late(attempt_number) == attempt_number > MaxAttempts

\* stop=stop_after_attempt(3)
stop_after_attempt(attempt_number) == attempt_number >= MaxAttempts

RECURSIVE Pow2(_)
Pow2(n) == IF n = 0 THEN 1 ELSE 2 * Pow2(n - 1)

Min(a, b) == IF a < b THEN a ELSE b
Max(a, b) == IF a > b THEN a ELSE b

\* Variant: the exponential wait without its minimum
wait_exponential_NoMin(attempt_number) ==
    Max(0, Min(WaitMultiplier * Pow2(attempt_number - 1), WaitMax))

\* wait=wait_exponential(multiplier=1, min=4, max=10): seconds slept after
\* attempt number attempt_number
wait_exponential(attempt_number) ==
    Max(Max(0, WaitMin), Min(WaitMultiplier * Pow2(attempt_number - 1), WaitMax))

\* ------------------------------------------------------------------ inputs
SymbolNames == {"AAPL", "MSFT"}

\* STOCK_SYMBOLS, up to the names of the symbols: lists may repeat a symbol
SymbolLists == {s \in [1..NumSymbols -> SymbolNames] : s[1] = "AAPL"}

WellFormedValue(field) ==
    CASE field = "open" -> RawNum(1500)
      [] field = "high" -> RawNum(1525)
      [] field = "low" -> RawNum(1490)
      [] field = "close" -> RawNum(1505)
      [] OTHER -> RawNum(70005)

WellFormed == [mapping |-> TRUE, f |-> [x \in Fields |-> WellFormedValue(x)]]
JunkClose == [mapping |-> TRUE, f |-> [WellFormed.f EXCEPT !["close"] = RawJunk]]
NonMapping == [mapping |-> FALSE, f |-> [x \in Fields |-> RawAbsent]]

\* The time series of a response: a JSON object keeps its keys distinct and in order
ItemLists(keys, entries) ==
    UNION {{s \in [1..n -> [key : keys, entry : entries]] :
              \A i, j \in 1..n : i < j => s[i].key # s[j].key} : n \in 0..MaxEntries}

Series(keys, entries) ==
    {[kind |-> "missing", items |-> <<>>], [kind |-> "nonmapping", items |-> <<>>]}
    \cup {[kind |-> "mapping", items |-> s] : s \in ItemLists(keys, entries)}

Bodies(keys, entries) ==
    {[error |-> e, note |-> n, series |-> s] :
        e \in BOOLEAN, n \in BOOLEAN, s \in Series(keys, entries)}

NoPayload == [error |-> FALSE, note |-> FALSE,
              series |-> [kind |-> "missing", items |-> <<>>]]

JunkVolume == [mapping |-> TRUE, f |-> [WellFormed.f EXCEPT !["volume"] = RawJunk]]

PipelineKeys == {"2024-01-02", "2024-1-2"}
PipelineEntries == {WellFormed, JunkClose}
PipelineBodies == Bodies(PipelineKeys, PipelineEntries)

\* Inputs of the parser: every date key of the model, and the entries that are
\* not mappings, that have no sub-field, or that differ from the well-formed
\* entry in one sub-field.
ParserKeys == {"2024-01-02", "2024-1-2", "2024-01-03", "not-a-date"}
PriceOddities == {RawAbsent, RawJunk, RawList, RawHuge}
VolumeOddities == {RawAbsent, RawJunk, RawList, RawHuge, RawNaN, RawNum(-25)}
AllAbsent == [mapping |-> TRUE, f |-> [x \in Fields |-> RawAbsent]]
ParserEntries ==
    {WellFormed, NonMapping, AllAbsent}
    \cup {[mapping |-> TRUE, f |-> [WellFormed.f EXCEPT ![x] = v]] :
             x \in Fields \ {"volume"}, v \in PriceOddities}
    \cup {[mapping |-> TRUE, f |-> [WellFormed.f EXCEPT !["volume"] = v]] :
             v \in VolumeOddities}
ParserBodies(entries) ==
    {[error |-> FALSE, note |-> FALSE, series |-> s] :
        s \in Series(ParserKeys, entries)}

\* The bodies of a day's run for the first symbol: two trading days, and entries
\* whose close or whose volume does not convert
DayKeys == {"2024-01-02", "2024-01-03"}
DayEntries == {WellFormed, JunkClose, JunkVolume}
DayBodies ==
    {[error |-> FALSE, note |-> FALSE, series |-> s] :
        s \in Series(DayKeys, DayEntries)}

\* datetime.now().date() at the time verify_data_quality runs
Dates == {"2024-01-02", "2024-01-03"}

\* What one attempt meets: a transport failure, a body that is not JSON, or a body
AttemptOutcomes ==
    {[kind |-> k, body |-> NoPayload] :
        k \in {"Timeout", "ConnectionError", "HTTPError", "NonJSON"}}
    \cup {[kind |-> "Body", body |-> b] : b \in PipelineBodies}


\* ------------------------------------------------------------------- state
VARIABLES
    symbols,        \* main: symbols, from STOCK_SYMBOLS
    api_key,        \* main: whether ALPHA_VANTAGE_API_KEY is set and non-empty
    requestsJSONDecodeError,
                    \* whether the installed requests raises its own JSONDecodeError,
                    \* a RequestException, from response.json() (requests >= 2.27)
    pc,             \* main's position
    idx,            \* the index in symbols of the symbol of this iteration
    status,         \* per index: Pending, Fetching, Parsing, Storing, Done, Failed
    attempts,       \* how many attempts this symbol's fetch has made
    lastAttempt,    \* what the last of them met
    networkOnly,    \* whether all of them met a timeout or a connection error
    sleeps,         \* the waits of this symbol's fetch, in seconds
    raw_data,       \* main: raw_data
    stock_data_list,\* main: stock_data_list
    outcome,        \* per index: how each step of the symbol ended
    store,          \* the committed rows of stock_prices
    conn,           \* insert_stock_data: the rows as the open transaction sees them
    call,           \* the last call of insert_stock_data
    total_records,  \* main: total_records
    exitCode,       \* the script's exit status, -1 while it runs
    worker_api_key, \* validate_environment: whether the key is set where the task runs
    task,           \* the task of the DAG run that runs or ran last
    tries,          \* its try number
    dag_state,      \* the DAG run: running, success, failed
    verifyCalls,    \* how many times verify_data_quality was called in this DAG run
    today,          \* verify_data_quality: today
    report,         \* verify_data_quality: what it found
    lastWrite,      \* per key, the record of the last committed write to it
    wrote           \* per index: the rows the symbol's committed call left, this run

vars == <<symbols, api_key, requestsJSONDecodeError, pc, idx, status,
          attempts, lastAttempt, networkOnly, sleeps, raw_data, stock_data_list, outcome, store, conn,
          call, total_records, exitCode, worker_api_key, task, tries, dag_state,
          verifyCalls, today, report, lastWrite, wrote>>

env == <<symbols, api_key, requestsJSONDecodeError, worker_api_key>>

dagrun == <<task, tries, dag_state, verifyCalls, today, report>>

script == <<pc, idx, status, attempts, lastAttempt, networkOnly, sleeps, raw_data,
            stock_data_list, outcome, conn, call, total_records, exitCode, wrote>>

NoOutcome == [fetch |-> "", parse |-> "", store |-> "", count |-> 0]
NoCall == [i |-> 0, pre |-> {}, batch |-> <<>>, executed |-> 0, result |-> ""]
NoAttempt == [kind |-> "", error |-> FALSE, note |-> FALSE]
NoReport == [made |-> FALSE, missing_symbols |-> <<>>,
             null_data |-> [s \in SymbolNames |-> 0], total_records |-> 0]

\* a run of the script starts here, whatever stock_prices holds
Fresh ==
    /\ pc = "start"
    /\ idx = 0
    /\ status = [i \in 1..NumSymbols |-> "Pending"]
    /\ attempts = 0
    /\ lastAttempt = NoAttempt
    /\ networkOnly = TRUE
    /\ sleeps = <<>>
    /\ raw_data = NoPayload
    /\ stock_data_list = <<>>
    /\ outcome = [i \in 1..NumSymbols |-> NoOutcome]
    /\ conn = {}
    /\ call = NoCall
    /\ total_records = 0
    /\ exitCode = -1
    /\ wrote = [i \in 1..NumSymbols |-> {}]

\* a DAG run starts with its first task
FreshRun ==
    /\ task = "validate_environment"
    /\ tries = 1
    /\ dag_state = "running"
    /\ verifyCalls = 0
    /\ today = ""
    /\ report = NoReport

Init ==
    /\ symbols \in SymbolLists
    /\ api_key \in BOOLEAN
    /\ requestsJSONDecodeError \in BOOLEAN
    /\ worker_api_key \in BOOLEAN
    /\ store = {}
    /\ lastWrite = {}
    /\ Fresh
    /\ FreshRun

\* ------------------------------------------------------------------- main
\* main, up to the loop, in the subprocess the task fetch_stock_data starts:
\* without the key the script exits with status 1
Start ==
    /\ pc = "start"
    /\ dag_state = "running"
    /\ task = "fetch_stock_data"
    /\ IF api_key
          THEN /\ pc' = "loop"
               /\ UNCHANGED exitCode
          ELSE /\ pc' = "exit"
               /\ exitCode' = 1
    /\ UNCHANGED <<dagrun, lastWrite, wrote>>
    /\ UNCHANGED <<env, idx, status, attempts, lastAttempt, networkOnly, sleeps, raw_data, stock_data_list,
                   outcome, store, conn, call, total_records>>

\* for symbol in symbols: the next symbol, or the end of the loop
LoopNext ==
    /\ pc = "loop"
    /\ idx < NumSymbols
    /\ pc' = "fetch"
    /\ idx' = idx + 1
    /\ status' = [status EXCEPT ![idx + 1] = "Fetching"]
    /\ attempts' = 0
    /\ lastAttempt' = NoAttempt
    /\ networkOnly' = TRUE
    /\ sleeps' = <<>>
    /\ raw_data' = NoPayload
    /\ stock_data_list' = <<>>
    /\ call' = NoCall
    /\ UNCHANGED <<dagrun, lastWrite, wrote>>
    /\ UNCHANGED <<env, outcome, store, conn, total_records, exitCode>>

\* Variant: a run in which every symbol failed exits with status 1
ExitAfterLoop_FailWhenAllFailed(st) ==
    IF \A i \in 1..NumSymbols : st[i] = "Failed" THEN 1 ELSE 0

\* main returns after the loop whatever the symbols' outcomes: exit status 0
ExitAfterLoop(st) == 0

LoopEnd ==
    /\ pc = "loop"
    /\ idx >= NumSymbols
    /\ pc' = "done"
    /\ exitCode' = ExitAfterLoop(status)
    /\ UNCHANGED <<dagrun, lastWrite, wrote>>
    /\ UNCHANGED <<env, idx, status, attempts, lastAttempt, networkOnly, sleeps, raw_data,
                   stock_data_list, outcome, store, conn, call, total_records>>

\* Variant: break instead of continue, the loop ends at the first failure
ExceptContinue_Break(i) == NumSymbols

\* except Exception ... continue: the loop goes on after the i-th symbol
ExceptContinue(i) == i

\* the symbol's iteration ends in the handler of main's inner try
SymbolFailed(step, exc) ==
    /\ status' = [status EXCEPT ![idx] = "Failed"]
    /\ outcome' = [outcome EXCEPT ![idx] = [@ EXCEPT ![step] = exc]]
    /\ idx' = ExceptContinue(idx)
    /\ pc' = "loop"

\* ----------------------------------------------------------- fetch_stock_data
\* Which exceptions are requests.RequestException
IsRequestException(e) ==
    \/ e \in {"Timeout", "ConnectionError", "HTTPError"}
    \/ e = "JSONDecodeError" /\ requestsJSONDecodeError

\* Variant: a rate-limit note is taken for an error as well
HasErrorMessage_OrNote(data) == data.error \/ data.note

\* 'Error Message' in data
HasErrorMessage(data) == data.error

\* Variant: an error-message body is raised as a requests exception
AttemptRaises_AsRequestError(o) ==
    CASE o.kind = "Body" -> IF o.body.error THEN "HTTPError" ELSE ""
      [] o.kind = "NonJSON" -> "JSONDecodeError"
      [] OTHER -> o.kind

\* The body of fetch_stock_data up to its handlers: what one attempt raises
AttemptRaises(o) ==
    CASE o.kind = "Body" -> IF HasErrorMessage(o.body) THEN "ValueError" ELSE ""
      [] o.kind = "NonJSON" -> "JSONDecodeError"
      [] OTHER -> o.kind

\* The except clauses of fetch_stock_data, in order
Handlers(e) ==
    IF e = "Timeout" THEN e
    ELSE IF IsRequestException(e) THEN e
    ELSE IF e = "JSONDecodeError" THEN "ValueError"
    ELSE e

\* Variant: every exception is retried
retry_if_exception_type_Any(e) == e # ""

\* retry=retry_if_exception_type((requests.RequestException, requests.Timeout))
retry_if_exception_type(e) == IsRequestException(e)

AttemptRecord(o) == [kind |-> o.kind, error |-> o.body.error, note |-> o.body.note]

\* One attempt of fetch_stock_data under the retry decorator, with what follows
\* it: the wait before the next attempt, the return to main, or the exception
\* (RetryError once the attempts are used up) that main's handler catches.
FetchAttempt ==
    /\ pc = "fetch"
    /\ \E o \in AttemptOutcomes :
         LET attempt_number == attempts + 1
             e == Handlers(AttemptRaises(o))
         IN  /\ attempts' = attempt_number
             /\ lastAttempt' = AttemptRecord(o)
             /\ networkOnly' = (networkOnly /\ o.kind \in {"Timeout", "ConnectionError"})
             /\ IF e = ""
                   THEN /\ raw_data' = o.body
                        /\ status' = [status EXCEPT ![idx] = "Parsing"]
                        /\ outcome' = [outcome EXCEPT ![idx].fetch = "ok"]
                        /\ pc' = "parse"
                        /\ UNCHANGED <<idx, sleeps>>
                   ELSE IF retry_if_exception_type(e)
                           /\ ~stop_after_attempt(attempt_number)
                   THEN /\ sleeps' = Append(sleeps, wait_exponential(attempt_number))
                        /\ UNCHANGED <<pc, idx, status, outcome, raw_data>>
                   ELSE /\ SymbolFailed("fetch",
                              IF retry_if_exception_type(e) THEN "RetryError" ELSE e)
                        /\ UNCHANGED <<sleeps, raw_data>>
    /\ UNCHANGED <<dagrun, lastWrite, wrote>>
    /\ UNCHANGED <<env, stock_data_list, store, conn, call, total_records,
                   exitCode>>

\* ----------------------------------------------------------- parse_stock_data
\* main's call of parse_stock_data and the branch on its result. The record of
\* the fetch's attempts is kept up to main's next step, which is this one after
\* a fetch that returned
ParseStep ==
    /\ pc = "parse"
    /\ LET r == parse_stock_data(raw_data, symbols[idx]) IN
         IF r.exc # ""
            THEN /\ SymbolFailed("parse", r.exc)
                 /\ UNCHANGED stock_data_list
         ELSE IF r.list = <<>>
            THEN /\ stock_data_list' = r.list
                 /\ status' = [status EXCEPT ![idx] = "Done"]
                 /\ outcome' = [outcome EXCEPT ![idx].parse = "ok"]
                 /\ pc' = "loop"
                 /\ UNCHANGED idx
            ELSE /\ stock_data_list' = r.list
                 /\ status' = [status EXCEPT ![idx] = "Storing"]
                 /\ outcome' = [outcome EXCEPT ![idx].parse = "ok"]
                 /\ pc' = "insert"
                 /\ UNCHANGED idx
    /\ attempts' = 0
    /\ lastAttempt' = NoAttempt
    /\ networkOnly' = TRUE
    /\ sleeps' = <<>>
    /\ UNCHANGED <<dagrun, lastWrite, wrote>>
    /\ UNCHANGED <<env, raw_data, store, conn, call, total_records, exitCode>>

\* ---------------------------------------------------------- insert_stock_data
\* Variant: total_records = records_inserted
Accumulate_Assign(total, records_inserted) == records_inserted

\* total_records += records_inserted
Accumulate(total, records_inserted) == total + records_inserted

\* get_connection and cursor.executemany: failAt = 0 is a connection that cannot
\* be opened, failAt = k the statement of the k-th tuple failing, and failAt
\* beyond the batch no failure. A failure is a psycopg2.Error: the handler rolls
\* back, the connection is closed and main's handler takes the exception.
\* raw_data, which main does not read again, is not kept past the call.
InsertExecute ==
    /\ pc = "insert"
    /\ \E failAt \in 0..(Len(stock_data_list) + 1) :
         LET n == Len(stock_data_list)
             executed == IF failAt = 0 THEN 0 ELSE IF failAt <= n THEN failAt - 1 ELSE n
             working == ExecuteMany(store, stock_data_list, executed)
         IN  IF failAt <= n
                THEN /\ store' = Rollback(store, working)
                     /\ conn' = {}
                     /\ call' = [i |-> idx, pre |-> store, batch |-> stock_data_list,
                                 executed |-> executed, result |-> "error"]
                     /\ SymbolFailed("store", "psycopg2.Error")
                ELSE /\ conn' = working
                     /\ call' = [i |-> idx, pre |-> store, batch |-> stock_data_list,
                                 executed |-> executed, result |-> "executed"]
                     /\ pc' = "commit"
                     /\ UNCHANGED <<store, idx, status, outcome>>
    /\ raw_data' = NoPayload
    /\ UNCHANGED <<dagrun, lastWrite, wrote>>
    /\ UNCHANGED <<env, attempts, lastAttempt, networkOnly, sleeps, stock_data_list,
                   total_records, exitCode>>

\* the record of the batch that is written last for the key of its k-th record
LastOf(batch, k) ==
    batch[CHOOSE j \in 1..Len(batch) :
            /\ SameKey(batch[j], batch[k])
            /\ \A m \in (j + 1)..Len(batch) : ~SameKey(batch[m], batch[k])]

\* History: the last committed record of each key, after a batch is committed
Written(log, batch) ==
    {r \in log : \A k \in 1..Len(batch) : ~SameKey(r, batch[k])}
    \cup {LastOf(batch, k) : k \in 1..Len(batch)}

\* conn.commit() and the return to main, or a commit that fails
InsertCommit ==
    /\ pc = "commit"
    /\ \E committed \in BOOLEAN :
         IF committed
            THEN /\ store' = Commit(store, conn)
                 /\ call' = [call EXCEPT !.result = "committed"]
                 /\ lastWrite' = Written(lastWrite, stock_data_list)
                 /\ wrote' = [wrote EXCEPT ![idx] = Written({}, stock_data_list)]
                 /\ total_records' = Accumulate(total_records, Len(stock_data_list))
                 /\ status' = [status EXCEPT ![idx] = "Done"]
                 /\ outcome' = [outcome EXCEPT ![idx] =
                                  [@ EXCEPT !.store = "ok",
                                            !.count = Len(stock_data_list)]]
                 /\ pc' = "loop"
                 /\ UNCHANGED idx
            ELSE /\ store' = Rollback(store, conn)
                 /\ call' = [call EXCEPT !.result = "error"]
                 /\ SymbolFailed("store", "psycopg2.Error")
                 /\ UNCHANGED <<total_records, lastWrite, wrote>>
    /\ conn' = {}
    /\ UNCHANGED dagrun
    /\ UNCHANGED <<env, attempts, lastAttempt, networkOnly, sleeps, raw_data, stock_data_list, exitCode>>

\* ----------------------------------------------------------------- the DAG
\* Variant: verify_data_quality is set downstream of validate_environment
Downstream_VerifyFirst(t) ==
    CASE t = "validate_environment" -> "verify_data_quality"
      [] t = "verify_data_quality" -> "fetch_stock_data"
      [] OTHER -> ""

\* validate_env_task >> fetch_data_task >> verify_data_task
Downstream(t) ==
    CASE t = "validate_environment" -> "fetch_stock_data"
      [] t = "fetch_stock_data" -> "verify_data_quality"
      [] OTHER -> ""

\* The callable returned: the downstream task is started, or the DAG run ends
TaskSucceeds ==
    IF Downstream(task) # ""
       THEN /\ task' = Downstream(task)
            /\ tries' = 1
            /\ UNCHANGED dag_state
       ELSE /\ dag_state' = "success"
            /\ UNCHANGED <<task, tries>>

\* The callable raised: the task is tried again while it has retries left
\* (retries = 3), and fails the DAG run after the last one
TaskFails ==
    IF tries <= Retries
       THEN /\ tries' = tries + 1
            /\ UNCHANGED <<task, dag_state>>
       ELSE /\ dag_state' = "failed"
            /\ UNCHANGED <<task, tries>>

\* validate_environment: ValueError when the key is not set or empty
ValidateEnvironment ==
    /\ dag_state = "running"
    /\ task = "validate_environment"
    /\ IF worker_api_key THEN TaskSucceeds ELSE TaskFails
    /\ UNCHANGED <<env, script, store, lastWrite, verifyCalls, today, report>>

\* Variant: the return code of the script is not looked at
ReturnCodeRaises_Ignored(returncode) == FALSE

\* if result.returncode != 0: raise RuntimeError
ReturnCodeRaises(returncode) == returncode # 0

\* fetch_stock_data of the DAG, once the subprocess has ended: the task succeeds
\* on return code 0 (of the ended process the statuses, the outcomes, the count
\* and the exit status are kept, its other locals are gone); otherwise it
\* raises, and its next try starts the script anew
FetchTaskEnd ==
    /\ dag_state = "running"
    /\ task = "fetch_stock_data"
    /\ pc \in {"done", "exit"}
    /\ IF ReturnCodeRaises(exitCode)
          THEN /\ TaskFails
               /\ IF tries <= Retries
                     THEN /\ pc' = "start"
                          /\ idx' = 0
                          /\ status' = [i \in 1..NumSymbols |-> "Pending"]
                          /\ attempts' = 0
                          /\ lastAttempt' = NoAttempt
                          /\ networkOnly' = TRUE
                          /\ sleeps' = <<>>
                          /\ raw_data' = NoPayload
                          /\ stock_data_list' = <<>>
                          /\ outcome' = [i \in 1..NumSymbols |-> NoOutcome]
                          /\ conn' = {}
                          /\ call' = NoCall
                          /\ total_records' = 0
                          /\ exitCode' = -1
                          /\ wrote' = [i \in 1..NumSymbols |-> {}]
                     ELSE UNCHANGED script
          ELSE /\ TaskSucceeds
               /\ attempts' = 0
               /\ lastAttempt' = NoAttempt
               /\ networkOnly' = TRUE
               /\ sleeps' = <<>>
               /\ raw_data' = NoPayload
               /\ stock_data_list' = <<>>
               /\ conn' = {}
               /\ call' = NoCall
               /\ UNCHANGED <<pc, idx, status, outcome, total_records, exitCode, wrote>>
    /\ UNCHANGED <<env, store, lastWrite, verifyCalls, today, report>>

\* DATE(timestamp) = today: the timestamps of stock_prices are the midnights
\* strptime made of the date keys, carried in the model as their dates
\* Variant: the rows of every date
TodayRows_AnyDate(table, d) == table

TodayRows(table, d) == {r \in table : r.timestamp = d}

\* Variant: volume IS NULL counts as well
AnyPriceNull_OrVolume(r) ==
    r.open = PyNone \/ r.high = PyNone \/ r.low = PyNone \/ r.close = PyNone
    \/ r.volume = PyNone

\* open IS NULL OR high IS NULL OR low IS NULL OR close IS NULL
AnyPriceNull(r) ==
    r.open = PyNone \/ r.high = PyNone \/ r.low = PyNone \/ r.close = PyNone

\* Variant: the total counts the rows of the symbols, whatever their date
TotalRecords_AllDates(table, d) == Cardinality(table)

\* SELECT COUNT(*) FROM stock_prices WHERE DATE(timestamp) = today
TotalRecords(table, d) == Cardinality(TodayRows(table, d))

\* verify_data_quality with the database reachable: the symbols of
\* STOCK_SYMBOLS without a row of today, the rows of today with a NULL price per
\* symbol, and the number of rows of today
verify_data_quality(table, d, expected_symbols) ==
    LET today_data == [s \in SymbolNames |->
                          Cardinality({r \in TodayRows(table, d) : r.symbol = s})]
        missing_symbols == SelectSeq(expected_symbols, LAMBDA s : today_data[s] = 0)
        null_data == [s \in SymbolNames |->
                         Cardinality({r \in TodayRows(table, d) :
                                         r.symbol = s /\ AnyPriceNull(r)})]
    IN  [made |-> TRUE, missing_symbols |-> missing_symbols, null_data |-> null_data,
         total_records |-> TotalRecords(table, d)]

\* The task verify_data_quality: psycopg2.connect, then the three queries on the
\* date the clock shows; a database that cannot be reached raises psycopg2.Error
VerifyDataQuality ==
    /\ dag_state = "running"
    /\ task = "verify_data_quality"
    /\ verifyCalls' = verifyCalls + 1
    /\ \E reachable \in BOOLEAN :
         IF reachable
            THEN /\ \E d \in Dates :
                       /\ today' = d
                       /\ report' = verify_data_quality(store, d, symbols)
                 /\ TaskSucceeds
            ELSE /\ TaskFails
                 /\ UNCHANGED <<today, report>>
    /\ UNCHANGED <<env, script, store, lastWrite>>

\* ------------------------------------------------------------------ schedule
\* The scheduler starts the next DAG run (max_active_runs = 1) when the last one
\* has ended: stock_prices is what the runs before left
Rerun ==
    /\ dag_state \in {"success", "failed"}
    /\ task' = "validate_environment"
    /\ tries' = 1
    /\ dag_state' = "running"
    /\ verifyCalls' = 0
    /\ today' = ""
    /\ report' = NoReport
    /\ pc' = "start"
    /\ idx' = 0
    /\ status' = [i \in 1..NumSymbols |-> "Pending"]
    /\ attempts' = 0
    /\ lastAttempt' = NoAttempt
    /\ networkOnly' = TRUE
    /\ sleeps' = <<>>
    /\ raw_data' = NoPayload
    /\ stock_data_list' = <<>>
    /\ outcome' = [i \in 1..NumSymbols |-> NoOutcome]
    /\ conn' = {}
    /\ call' = NoCall
    /\ total_records' = 0
    /\ exitCode' = -1
    /\ wrote' = [i \in 1..NumSymbols |-> {}]
    /\ UNCHANGED <<env, store, lastWrite>>

Next ==
    \/ Start
    \/ LoopNext
    \/ LoopEnd
    \/ FetchAttempt
    \/ ParseStep
    \/ InsertExecute
    \/ InsertCommit
    \/ ValidateEnvironment
    \/ FetchTaskEnd
    \/ VerifyDataQuality
    \/ Rerun

Spec == Init /\ [][Next]_vars


\* The parser on every input of ParserBodies: main at the call of
\* parse_stock_data for its first symbol, with the body the fetch returned
InitParse ==
    /\ symbols \in SymbolLists
    /\ api_key = TRUE
    /\ requestsJSONDecodeError = TRUE
    /\ pc = "parse"
    /\ idx = 1
    /\ status = [i \in 1..NumSymbols |-> IF i = 1 THEN "Parsing" ELSE "Pending"]
    /\ attempts = 1
    /\ raw_data \in ParserBodies(ParserEntries)
    /\ lastAttempt = [kind |-> "Body", error |-> FALSE, note |-> FALSE]
    /\ networkOnly = FALSE
    /\ sleeps = <<>>
    /\ stock_data_list = <<>>
    /\ outcome = [i \in 1..NumSymbols |->
                    IF i = 1 THEN [NoOutcome EXCEPT !.fetch = "ok"] ELSE NoOutcome]
    /\ store = {}
    /\ conn = {}
    /\ call = NoCall
    /\ total_records = 0
    /\ exitCode = -1
    /\ worker_api_key = TRUE
    /\ task = "fetch_stock_data"
    /\ tries = 1
    /\ dag_state = "running"
    /\ verifyCalls = 0
    /\ today = ""
    /\ report = NoReport
    /\ lastWrite = {}
    /\ wrote = [i \in 1..NumSymbols |-> {}]

NextParse == ParseStep

SpecParse == InitParse /\ [][NextParse]_vars

\* A day's DAG run from the first symbol's parse on, with a body of DayBodies:
\* the script goes on with the other symbols and verify_data_quality follows
InitDay ==
    /\ symbols \in SymbolLists
    /\ api_key = TRUE
    /\ requestsJSONDecodeError = TRUE
    /\ pc = "parse"
    /\ idx = 1
    /\ status = [i \in 1..NumSymbols |-> IF i = 1 THEN "Parsing" ELSE "Pending"]
    /\ attempts = 1
    /\ raw_data \in DayBodies
    /\ lastAttempt = [kind |-> "Body", error |-> FALSE, note |-> FALSE]
    /\ networkOnly = FALSE
    /\ sleeps = <<>>
    /\ stock_data_list = <<>>
    /\ outcome = [i \in 1..NumSymbols |->
                    IF i = 1 THEN [NoOutcome EXCEPT !.fetch = "ok"] ELSE NoOutcome]
    /\ store = {}
    /\ conn = {}
    /\ call = NoCall
    /\ total_records = 0
    /\ exitCode = -1
    /\ worker_api_key = TRUE
    /\ task = "fetch_stock_data"
    /\ tries = 1
    /\ dag_state = "running"
    /\ verifyCalls = 0
    /\ today = ""
    /\ report = NoReport
    /\ lastWrite = {}
    /\ wrote = [i \in 1..NumSymbols |-> {}]

NextDay ==
    \/ LoopNext
    \/ LoopEnd
    \/ FetchAttempt
    \/ ParseStep
    \/ InsertExecute
    \/ InsertCommit
    \/ FetchTaskEnd
    \/ VerifyDataQuality

SpecDay == InitDay /\ [][NextDay]_vars

\* ------------------------------------------------------------------ claims
Terminal == {"Done", "Failed"}

StepRaised(o) ==
    \/ o.fetch \notin {"", "ok"}
    \/ o.parse \notin {"", "ok"}
    \/ o.store \notin {"", "ok"}

\* C1: failure isolation. When the loop has ended every symbol of the list has
\* been attempted and is Done or Failed, Failed exactly when one of its own
\* steps (fetch, parse, store) raised, whatever happened to the symbols before
\* it; and no step changes the status of a symbol other than the one it is
\* working on.
FailureIsolation ==
    /\ [](pc = "done" =>
            \A i \in 1..NumSymbols :
                /\ status[i] \in Terminal
                /\ outcome[i].fetch # ""
                /\ (status[i] = "Failed") <=> StepRaised(outcome[i]))
    /\ [][\A j \in 1..NumSymbols :
            status'[j] # status[j] => (pc' = "start" \/ j = idx')]_vars

FailureIsolationWitness ==
    /\ pc = "done"
    /\ status[1] = "Failed"
    /\ outcome[1].fetch = "ValueError"
    /\ status[NumSymbols] = "Done"
    /\ outcome[NumSymbols].count > 0

RECURSIVE SumDone(_)
SumDone(i) ==
    IF i = 0 THEN 0
    ELSE (IF status[i] = "Done" THEN outcome[i].count ELSE 0) + SumDone(i - 1)

\* C2: aggregate count. At the end of the loop total_records is the sum of the
\* counts insert_stock_data returned for the symbols that are Done; a Failed
\* symbol adds nothing.
AggregateCount == pc = "done" => total_records = SumDone(NumSymbols)

AggregateCountWitness ==
    /\ pc = "done"
    /\ status[1] = "Failed"
    /\ outcome[1].store = "psycopg2.Error"
    /\ status[NumSymbols] = "Done"
    /\ outcome[NumSymbols].count = 2
    /\ total_records = 2

AlreadyStored(table, batch) == \A k \in 1..Len(batch) : LastOf(batch, k) \in table

\* C3: idempotent upsert. After a committed call the table has exactly one row
\* for each key of the batch, holding the values this call wrote last for the
\* key; and when the table already held the batch's rows (the same record set
\* was stored before, in this run or an earlier one) the call leaves the table
\* as it was.
IdempotentUpsert ==
    call.result = "committed" =>
        /\ \A k \in 1..Len(call.batch) :
              {x \in store : SameKey(x, call.batch[k])} = {LastOf(call.batch, k)}
        /\ AlreadyStored(call.pre, call.batch) => store = call.pre

IdempotentUpsertWitness ==
    /\ call.result = "committed"
    /\ Len(call.batch) = 2
    /\ AlreadyStored(call.pre, call.batch)
    /\ call.i = 1

\* C4: atomic batch. Nothing of a batch is in the table before the commit; a
\* call that fails leaves the table as it was before the call and its symbol
\* Failed with the error; a call that commits leaves the whole batch.
AtomicBatch ==
    /\ call.result = "executed" => store = call.pre
    /\ call.result = "error" =>
          /\ store = call.pre
          /\ status[call.i] = "Failed"
          /\ outcome[call.i].store = "psycopg2.Error"
    /\ call.result = "committed" =>
          store = ExecuteMany(call.pre, call.batch, Len(call.batch))

AtomicBatchWitness ==
    /\ call.result = "error"
    /\ call.executed >= 1
    /\ call.executed < Len(call.batch)
    /\ ExecuteMany(call.pre, call.batch, call.executed) # call.pre

FetchOver == idx >= 1 /\ outcome[idx].fetch # ""

\* C5: retry bound. A fetch never makes more than 3 attempts, and one whose
\* attempts all met a timeout or a connection error ends after exactly 3 of
\* them, with RetryError raised to main.
RetryBound ==
    /\ attempts <= 3
    /\ (FetchOver /\ networkOnly /\ attempts > 0) =>
          /\ attempts = 3
          /\ outcome[idx].fetch = "RetryError"
          /\ status[idx] = "Failed"

RetryBoundWitness ==
    /\ FetchOver
    /\ networkOnly
    /\ attempts = 3
    /\ outcome[idx].fetch = "RetryError"

\* C6: fatal short-circuit. An attempt that decodes a body with an error-message
\* field is the fetch's last: no attempt and no wait follows it, ValueError is
\* raised to main and the symbol is Failed, whatever else the body holds.
FatalShortCircuit ==
    (lastAttempt.kind = "Body" /\ lastAttempt.error) =>
        /\ pc # "fetch"
        /\ Len(sleeps) = attempts - 1
        /\ outcome[idx].fetch = "ValueError"
        /\ status[idx] = "Failed"

FatalShortCircuitWitness ==
    /\ lastAttempt.kind = "Body"
    /\ lastAttempt.error
    /\ lastAttempt.note
    /\ attempts = 1
    /\ status[idx] = "Failed"

\* C7: a body that is not JSON ends the fetch at that attempt with ValueError
\* raised to main, not retried.
NonJsonIsFatal ==
    lastAttempt.kind = "NonJSON" =>
        /\ pc # "fetch"
        /\ outcome[idx].fetch = "ValueError"

\* C8, as claimed, for the builds in which response.json() raises the standard
\* library's error: an attempt is followed by another one only if it met a
\* timeout or a connection error.
RetryOnlyOnNetworkFailure ==
    (~requestsJSONDecodeError /\ pc = "fetch" /\ attempts >= 1) =>
        lastAttempt.kind \in {"Timeout", "ConnectionError"}

\* C8, amended: an attempt is followed by another one only if it raised a
\* requests.RequestException (a timeout, a connection error, the HTTPError of
\* raise_for_status, or the JSON error where requests raises its own) and fewer
\* than 3 attempts were made; after a ValueError or a returned body none follows.
RetryOnlyOnRequestException ==
    /\ (pc = "fetch" /\ attempts >= 1) =>
          /\ attempts < 3
          /\ \/ lastAttempt.kind \in {"Timeout", "ConnectionError", "HTTPError"}
             \/ lastAttempt.kind = "NonJSON" /\ requestsJSONDecodeError
    /\ (FetchOver /\ outcome[idx].fetch = "RetryError") =>
          lastAttempt.kind # "Body"

RetryOnlyOnRequestExceptionWitness ==
    /\ pc = "fetch"
    /\ attempts = 2
    /\ lastAttempt.kind = "HTTPError"

\* C9: rate-limit advisory. An attempt that decodes a body with a note and no
\* error message is the fetch's last, with no wait after it; the body is
\* returned to main and the symbol goes on to Parsing.
RateLimitAdvisory ==
    (lastAttempt.kind = "Body" /\ lastAttempt.note /\ ~lastAttempt.error) =>
        /\ pc # "fetch"
        /\ Len(sleeps) = attempts - 1
        /\ outcome[idx].fetch = "ok"
        /\ pc = "parse" => (status[idx] = "Parsing" /\ raw_data.note)

RateLimitAdvisoryWitness ==
    /\ pc = "parse"
    /\ lastAttempt.kind = "Body"
    /\ lastAttempt.note
    /\ attempts = 1
    /\ status[idx] = "Parsing"

\* C10: parse_stock_data raises nothing, whatever the time-series container and
\* its entries hold.
ParserNeverRaises ==
    \A i \in 1..NumSymbols : outcome[i].parse \in {"", "ok"}

\* what the claim says a sub-field becomes: the converted number, or null when
\* the value is absent or has no conversion to the field's type
ClaimedField(field, raw) ==
    CASE raw.k = "numstr" ->
            IF field = "volume" THEN PyInt(Trunc(raw.v)) ELSE PyFloat(raw.v)
      [] raw.k = "huge" /\ field # "volume" -> PyInf
      [] raw.k = "nanstr" /\ field # "volume" -> PyNaN
      [] OTHER -> PyNone

ClaimedRecord(symbol, item) ==
    StockData(symbol, strptime(item.key).val,
              ClaimedField("open", item.entry.f["open"]),
              ClaimedField("high", item.entry.f["high"]),
              ClaimedField("low", item.entry.f["low"]),
              ClaimedField("close", item.entry.f["close"]),
              ClaimedField("volume", item.entry.f["volume"]))

\* C11: null tolerance. For every entry of the time series with a parsable date
\* key, the output of parse_stock_data holds the entry's record, in which each
\* sub-field that is absent or does not convert is null and every other
\* sub-field holds its converted value.
NullTolerance ==
    (pc # "parse" /\ raw_data.series.kind = "mapping") =>
        \A k \in 1..Len(raw_data.series.items) :
            LET item == raw_data.series.items[k] IN
            (strptime(item.key).exc = "" /\ item.entry.mapping) =>
                \E j \in 1..Len(stock_data_list) :
                    stock_data_list[j] = ClaimedRecord(symbols[idx], item)

RECURSIVE ParsableDates(_)
ParsableDates(items) ==
    IF items = <<>> THEN <<>>
    ELSE LET ts == strptime(items[1].key) IN
         (IF ts.exc = "" THEN <<ts.val>> ELSE <<>>) \o ParsableDates(Tail(items))

\* C12: bad date key. The output of parse_stock_data has one record for each
\* entry whose date key parses, in the order of the entries, and none for an
\* entry whose date key does not parse.
BadDateKeySkipped ==
    (pc # "parse" /\ raw_data.series.kind = "mapping") =>
        [j \in 1..Len(stock_data_list) |-> stock_data_list[j].timestamp]
            = ParsableDates(raw_data.series.items)

\* C13: missing time series. When the body the fetch returned has no time-series
\* key, the parse step ends with an empty list and the symbol Done with zero
\* records; insert_stock_data is not called, so stock_prices and total_records
\* are as they were.
MissingTimeSeries ==
    [][(pc = "parse" /\ raw_data.series.kind = "missing") =>
          /\ stock_data_list' = <<>>
          /\ status'[idx] = "Done"
          /\ outcome'[idx].parse = "ok"
          /\ outcome'[idx].store = ""
          /\ outcome'[idx].count = 0
          /\ call' = call
          /\ store' = store
          /\ total_records' = total_records
          /\ pc' = "loop"]_vars

MissingTimeSeriesWitness ==
    /\ pc = "loop"
    /\ idx = NumSymbols
    /\ outcome[idx].fetch = "ok"
    /\ raw_data.series.kind = "missing"
    /\ status[idx] = "Done"
    /\ outcome[idx].count = 0
    /\ total_records > 0
    /\ store # {}

\* C14: missing credential. Without the key the script ends with a non-zero exit
\* status while every symbol is still Pending: no fetch attempt, no parse and
\* no call of insert_stock_data was made and stock_prices has no row of it; the
\* task fetch_stock_data that started the script does not succeed, so nothing
\* downstream of it runs.
MissingCredential ==
    ~api_key =>
        /\ pc \in {"start", "exit"}
        /\ pc = "exit" => exitCode # 0
        /\ \A i \in 1..NumSymbols : status[i] = "Pending" /\ outcome[i] = NoOutcome
        /\ attempts = 0
        /\ stock_data_list = <<>>
        /\ call = NoCall
        /\ store = {}
        /\ total_records = 0
        /\ task # "verify_data_quality"
        /\ dag_state # "success"
        /\ verifyCalls = 0

MissingCredentialWitness ==
    /\ ~api_key
    /\ worker_api_key
    /\ pc = "exit"
    /\ exitCode = 1
    /\ task = "fetch_stock_data"
    /\ tries = Retries + 1
    /\ dag_state = "failed"

\* C15: run outcome. With the key set the script never ends with a non-zero exit
\* status: it ends only after the loop, with exit status 0, when every symbol of
\* the list has been attempted and is Done or Failed, whatever the outcomes.
RunOutcome ==
    api_key =>
        /\ exitCode \in {-1, 0}
        /\ pc # "exit"
        /\ (pc = "done") <=> (exitCode = 0)
        /\ pc = "done" =>
              \A i \in 1..NumSymbols : status[i] \in Terminal /\ outcome[i].fetch # ""

RunOutcomeWitness ==
    /\ api_key
    /\ pc = "done"
    /\ exitCode = 0
    /\ \A i \in 1..NumSymbols : status[i] = "Failed"
    /\ task = "verify_data_quality"

\* C16, as claimed: verifier ordering. In every DAG run verify_data_quality is
\* called exactly once, and only when every symbol is Done or Failed.
VerifierExactlyOnce ==
    /\ dag_state \in {"success", "failed"} => verifyCalls = 1
    /\ verifyCalls > 0 => \A i \in 1..NumSymbols : status[i] \in Terminal

\* C16, amended: verify_data_quality runs only downstream of a fetch task that
\* succeeded, that is when the script has ended with status 0 and every symbol
\* is Done or Failed, never while a symbol is Pending, Fetching, Parsing or
\* Storing. It is called once per try of its task: not at all in a DAG run in
\* which an upstream task fails, up to 1 + 3 times when the database cannot be
\* reached, and at most one call of a DAG run returns a report, which ends the
\* run.
VerifierAfterLoop ==
    /\ (task = "verify_data_quality" \/ verifyCalls > 0) =>
          /\ pc = "done"
          /\ exitCode = 0
          /\ \A i \in 1..NumSymbols : status[i] \in Terminal
    /\ task # "verify_data_quality" => verifyCalls = 0
    /\ task = "verify_data_quality" =>
          verifyCalls = (IF dag_state = "running" THEN tries - 1 ELSE tries)
    /\ verifyCalls <= Retries + 1
    /\ report.made <=> dag_state = "success"

VerifierAfterLoopWitness ==
    /\ dag_state = "success"
    /\ verifyCalls = 2
    /\ report.made
    /\ status[1] = "Failed"
    /\ status[NumSymbols] = "Done"

Reported(seq) == {seq[j] : j \in 1..Len(seq)}

\* C17: verifier completeness. The symbols a report names as missing are the
\* symbols of STOCK_SYMBOLS without a row of the report's date in stock_prices,
\* and a report that names missing symbols is returned like any other: the
\* task succeeds.
VerifierCompleteness ==
    report.made =>
        /\ Reported(report.missing_symbols) =
              {symbols[i] : i \in {n \in 1..NumSymbols :
                  ~\E r \in store : r.symbol = symbols[n] /\ r.timestamp = today}}
        /\ dag_state = "success"

VerifierCompletenessWitness ==
    /\ report.made
    /\ dag_state = "success"
    /\ today = "2024-01-03"
    /\ "AAPL" \notin Reported(report.missing_symbols)
    /\ "MSFT" \in Reported(report.missing_symbols)
    /\ \E r \in store : r.symbol = "MSFT" /\ r.timestamp = "2024-01-02"

PriceFields == {"open", "high", "low", "close"}

\* C18: verifier null count. The count a report gives for a symbol is the number
\* of the symbol's rows of the report's date in which a price field is NULL: 1
\* for a symbol whose row of the date has a NULL close, and 0 for a symbol
\* whose row of the date has its four prices, NULL volume or not.
VerifierNullCount ==
    report.made =>
        /\ \A s \in SymbolNames :
              report.null_data[s] =
                 Cardinality({r \in store : /\ r.symbol = s
                                            /\ r.timestamp = today
                                            /\ \E x \in PriceFields : r[x] = PyNone})
        /\ \A r \in store :
              r.timestamp = today =>
                 /\ r.close = PyNone => report.null_data[r.symbol] = 1
                 /\ (\A x \in PriceFields : r[x] # PyNone) =>
                       report.null_data[r.symbol] = 0

VerifierNullCountWitness ==
    /\ report.made
    /\ today = "2024-01-02"
    /\ ClaimedRecord("AAPL", [key |-> "2024-01-02", entry |-> JunkClose]) \in store
    /\ ClaimedRecord("AAPL", [key |-> "2024-01-03", entry |-> JunkVolume]) \in store
    /\ ClaimedRecord("MSFT", [key |-> "2024-01-02", entry |-> WellFormed]) \in store
    /\ report.null_data["AAPL"] = 1
    /\ report.null_data["MSFT"] = 0

\* the clean day: the first symbol stored a batch, every row of stock_prices is
\* its own and has its five fields, and the report is of one of their dates
CleanDay ==
    /\ report.made
    /\ status[1] = "Done"
    /\ outcome[1].count >= 1
    /\ \A i \in 2..NumSymbols : outcome[i].count = 0
    /\ \A r \in store :
          /\ r.symbol = symbols[1]
          /\ \A x \in Fields : r[x] # PyNone
    /\ \E r \in store : r.timestamp = today

\* C19, as claimed: clean day. The N entries of the symbol make N rows, and the
\* report of that date has the symbol present, no NULL-price row and a total of
\* N rows.
CleanDayTotalIsBatchSize ==
    CleanDay =>
        /\ Cardinality(store) = outcome[1].count
        /\ symbols[1] \notin Reported(report.missing_symbols)
        /\ report.null_data[symbols[1]] = 0
        /\ report.total_records = outcome[1].count

\* C19, amended: clean day. The N entries of the symbol, of distinct dates, make
\* N rows; the report of one of these dates has the symbol present, no
\* NULL-price row, and a total of 1, the one row of that date, whatever N is.
CleanDayTotalIsOfTheDate ==
    CleanDay =>
        /\ Cardinality(store) = outcome[1].count
        /\ symbols[1] \notin Reported(report.missing_symbols)
        /\ report.null_data[symbols[1]] = 0
        /\ report.total_records = 1

CleanDayTotalIsOfTheDateWitness ==
    /\ CleanDay
    /\ outcome[1].count = 2
    /\ Cardinality(store) = 2
    /\ report.total_records = 1

\* C20: last write wins without duplicates. Whatever calls of insert_stock_data
\* were made, committed or rolled back, stock_prices has at most one row per
\* (symbol, timestamp), and its rows are, key by key, the records of the last
\* committed write to the key: a rolled-back call leaves no trace, and a NULL
\* written last stands in place of the number stored before.
LastWriteWins ==
    /\ \A a, b \in store : SameKey(a, b) => a = b
    /\ store = lastWrite

LastWriteWinsWitness ==
    /\ call.result = "committed"
    /\ \E old \in call.pre, new \in store :
          /\ SameKey(old, new)
          /\ old.close # PyNone
          /\ new.close = PyNone
          /\ new \in lastWrite
    /\ \E i \in 1..NumSymbols : outcome[i].store = "psycopg2.Error"

\* C21: parsed volume is non-negative. Every record parse_stock_data returns has
\* a volume that is null or an integer of at least zero.
ParsedVolumeNonNegative ==
    \A j \in 1..Len(stock_data_list) :
        \/ stock_data_list[j].volume = PyNone
        \/ stock_data_list[j].volume.k = "int" /\ stock_data_list[j].volume.v >= 0

\* C23: backoff placement and bounds. While a fetch goes on it has slept once
\* after each attempt made, and when it has ended, after n attempts, it has
\* slept n - 1 times: nothing before the first attempt and nothing after the
\* last. Each wait is of 4 to 10 seconds and no wait is shorter than the one
\* before it; the same holds, when a fetch starts, of the waits the decorator
\* would compute for later attempts.
BackoffBounds ==
    /\ pc = "fetch" => Len(sleeps) = attempts
    /\ (FetchOver /\ attempts >= 1) =>
          /\ attempts <= 3
          /\ Len(sleeps) = attempts - 1
    /\ \A k \in 1..Len(sleeps) :
          /\ sleeps[k] >= 4
          /\ sleeps[k] <= 10
          /\ k > 1 => sleeps[k] >= sleeps[k - 1]
    /\ (pc = "fetch" /\ attempts = 0) =>
          \A n \in 1..8 :
              /\ wait_exponential(n) >= 4
              /\ wait_exponential(n) <= 10
              /\ wait_exponential(n + 1) >= wait_exponential(n)

BackoffBoundsWitness ==
    /\ FetchOver
    /\ attempts = 3
    /\ sleeps = <<4, 4>>
    /\ outcome[idx].fetch = "RetryError"
    /\ wait_exponential(5) = 10

BatchKeys(batch) == {<<batch[k].symbol, batch[k].timestamp>> : k \in 1..Len(batch)}

\* C24: upsert return value. The count a committed call of insert_stock_data
\* returned is the number of distinct (symbol, timestamp) rows the call
\* inserted or updated.
UpsertCountIsRowsWritten ==
    (call.result = "committed" /\ status[call.i] = "Done") =>
        /\ Len(call.batch) > 0
        /\ outcome[call.i].count = Cardinality(BatchKeys(call.batch))
        /\ outcome[call.i].count =
              Cardinality({r \in store : <<r.symbol, r.timestamp>> \in BatchKeys(call.batch)})

Keys(rows) == {<<r.symbol, r.timestamp>> : r \in rows}

\* the rows of table with those of a later write put over them
Overwrite(table, rows) ==
    {r \in table : <<r.symbol, r.timestamp>> \notin Keys(rows)} \cup rows

\* the orders in which the symbols' store writes may be made
Orders == {p \in [1..NumSymbols -> 1..NumSymbols] :
              \A i, j \in 1..NumSymbols : i # j => p[i] # p[j]}

ListOrder == [i \in 1..NumSymbols |-> i]

\* what the first n writes of the order p leave in the keys they touch
RECURSIVE InOrder(_, _)
InOrder(p, n) ==
    IF n = 0 THEN {} ELSE Overwrite(InOrder(p, n - 1), wrote[p[n]])

\* C22, as claimed: cross-symbol independence. The store writes of any two
\* entries of the symbol list touch disjoint sets of keys, and at the end of
\* the run the writes made in any order leave what they leave in list order.
CrossSymbolIndependence ==
    /\ \A i, j \in 1..NumSymbols :
          i # j => Keys(wrote[i]) \cap Keys(wrote[j]) = {}
    /\ pc = "done" =>
          \A p \in Orders : InOrder(p, NumSymbols) = InOrder(ListOrder, NumSymbols)

\* C22, amended: cross-symbol independence. The store write of an entry of the
\* symbol list touches only keys of its own symbol, so the writes of two
\* entries with different symbols have touched disjoint sets of keys at the end
\* of the run; stock_prices then holds, in the keys touched, what the writes leave in
\* list order, and the writes made in any order that keeps the entries of one
\* symbol in their list order leave the same.
DistinctSymbolIndependence ==
    /\ \A i \in 1..NumSymbols : \A r \in wrote[i] : r.symbol = symbols[i]
    /\ pc = "done" =>
          /\ \A i, j \in 1..NumSymbols :
                symbols[i] # symbols[j] => Keys(wrote[i]) \cap Keys(wrote[j]) = {}
          /\ {r \in store : <<r.symbol, r.timestamp>> \in Keys(InOrder(ListOrder, NumSymbols))}
                = InOrder(ListOrder, NumSymbols)
          /\ \A p \in Orders :
                (\A i, j \in 1..NumSymbols :
                    (i < j /\ symbols[p[i]] = symbols[p[j]]) => p[i] < p[j])
                => InOrder(p, NumSymbols) = InOrder(ListOrder, NumSymbols)

DistinctSymbolIndependenceWitness ==
    /\ pc = "done"
    /\ symbols[1] # symbols[NumSymbols]
    /\ wrote[1] # {}
    /\ wrote[NumSymbols] # {}
    /\ \E a \in wrote[1], b \in wrote[NumSymbols] : a.timestamp = b.timestamp

====
